---------------------------- MODULE Spec2Model ----------------------------
(***************************************************************************)
(* Model of the EnlitenAI medical data query system (src/app.py and        *)
(* src/utils): the session initialisation, the three query entry paths     *)
(* (text, voice, Direct SQL), the SQL safety gate, the translator and the  *)
(* answer synthesiser.                                                     *)
(*                                                                         *)
(* SQL texts are sequences of characters, each character a one-character   *)
(* string; three characters that cannot be written so have names: "NL" is  *)
(* the line feed, "TAB" the tabulation and "BQ" the backquote.  Messages   *)
(* shown to the user are strings.  An optional value (Python's None or a   *)
(* value) is a sequence of length 0 or 1.                                  *)
(***************************************************************************)
EXTENDS Integers, Sequences, FiniteSets, TLC

VARIABLES
    secrets_key,      \* st.secrets["OPENAI_API_KEY"], optional
    env_openai_key,   \* os.environ["OPENAI_API_KEY"], optional
    env_gemini_key,   \* os.environ["GEMINI_API_KEY"], optional
    data_folder,      \* the *.csv files of data/, in glob order
    db_manager,       \* st.session_state.db_manager, optional
    llm_manager,      \* st.session_state.llm_manager, optional
    voice_manager,    \* st.session_state.voice_manager, optional
    load_count,       \* calls of load_csvs_to_db made in the session
    query_history,    \* st.session_state.query_history
    mode,             \* entry path of the current pass
    pc,               \* position of the script run
    query,            \* the question of the pass
    sql_query,        \* the SQL text of the pass, optional
    explanation,      \* the explanation returned by text_to_sql, optional
    is_valid,         \* validate_sql's verdict, optional
    error_msg,        \* validate_sql's reason
    results,          \* row count of the DataFrame of execute_query, optional
    answer,           \* what process_text_query returned, optional
    outcome,          \* how the pass ended
    calls,            \* the calls made during the pass, in order
    errors,           \* the st.error messages of the run, in order
    displayed,        \* what the run has put on the page
    history_before,   \* query_history when the run began
    unit              \* the run of one function taken alone, see below

envVars == <<secrets_key, env_openai_key, env_gemini_key, data_folder>>
sessVars == <<db_manager, llm_manager, voice_manager, load_count,
              query_history>>
passVars == <<mode, pc, query, sql_query, explanation, is_valid, error_msg,
              results, answer, outcome, calls, errors, displayed,
              history_before>>
vars == <<envVars, sessVars, passVars, unit>>

None == <<>>
Some(x) == <<x>>

\* `unit` holds the state of a function followed step by step on its own
\* (CleanSpec, TranscribeSpec); it is no_unit in the session.
no_unit == [fn |-> "none"]

-----------------------------------------------------------------------------
(* Bounds of the model *)

MaxTokens == 3      \* tokens in a query text given to the validator
MaxHistory == 2     \* records in query_history

-----------------------------------------------------------------------------
(* Character strings *)

LowerLetters ==
    <<"a", "b", "c", "d", "e", "f", "g", "h", "i", "j", "k", "l", "m",
      "n", "o", "p", "q", "r", "s", "t", "u", "v", "w", "x", "y", "z">>

UpperLetters ==
    <<"A", "B", "C", "D", "E", "F", "G", "H", "I", "J", "K", "L", "M",
      "N", "O", "P", "Q", "R", "S", "T", "U", "V", "W", "X", "Y", "Z">>

\* str.lower() on one character
LowerChar(c) ==
    IF \E i \in 1..Len(UpperLetters) : UpperLetters[i] = c
    THEN LowerLetters[CHOOSE i \in 1..Len(UpperLetters) : UpperLetters[i] = c]
    ELSE c

\* str.lower()
Lower(s) == [i \in 1..Len(s) |-> LowerChar(s[i])]

\* the characters str.strip() removes
IsSpace(c) == c \in {" ", "NL", "TAB"}

RECURSIVE LStrip(_)
LStrip(s) ==
    IF s # <<>> /\ IsSpace(Head(s)) THEN LStrip(Tail(s)) ELSE s

RECURSIVE RStrip(_)
RStrip(s) ==
    IF s # <<>> /\ IsSpace(s[Len(s)])
    THEN RStrip(SubSeq(s, 1, Len(s) - 1))
    ELSE s

\* str.strip()
Strip(s) == RStrip(LStrip(s))

\* str.startswith(prefix)
StartsWith(s, prefix) ==
    /\ Len(prefix) <= Len(s)
    /\ SubSeq(s, 1, Len(prefix)) = prefix

\* a substring test that takes whole words only
IsWordChar(c) ==
    \/ \E i \in 1..Len(LowerLetters) : LowerLetters[i] = LowerChar(c)
    \/ c \in {"_", "0", "1", "2", "3", "4", "5", "6", "7", "8", "9"}
ContainsWord(sub, s) ==
    \E i \in 1..(Len(s) - Len(sub) + 1) :
        /\ SubSeq(s, i, i + Len(sub) - 1) = sub
        /\ i = 1 \/ ~IsWordChar(s[i - 1])
        /\ i + Len(sub) > Len(s) \/ ~IsWordChar(s[i + Len(sub)])

\* the substring test `sub in s`
Contains(sub, s) ==
    \E i \in 1..(Len(s) - Len(sub) + 1) :
        SubSeq(s, i, i + Len(sub) - 1) = sub

\* str.replace(pat, ""): every non-overlapping occurrence, left to right
RECURSIVE Remove(_, _)
Remove(s, pat) ==
    IF Len(s) < Len(pat) THEN s
    ELSE IF StartsWith(s, pat)
         THEN Remove(SubSeq(s, Len(pat) + 1, Len(s)), pat)
         ELSE <<Head(s)>> \o Remove(Tail(s), pat)

\* the text of a character sequence, as it is formatted into a message
RECURSIVE Text(_)
Text(s) == IF s = <<>> THEN "" ELSE Head(s) \o Text(Tail(s))

-----------------------------------------------------------------------------
(* DatabaseManager.validate_sql *)

dangerous_keywords ==
    << <<"d", "r", "o", "p">>,
       <<"d", "e", "l", "e", "t", "e">>,
       <<"i", "n", "s", "e", "r", "t">>,
       <<"u", "p", "d", "a", "t", "e">>,
       <<"a", "l", "t", "e", "r">>,
       <<"c", "r", "e", "a", "t", "e">>,
       <<"t", "r", "u", "n", "c", "a", "t", "e">>,
       <<"e", "x", "e", "c">>,
       <<"e", "x", "e", "c", "u", "t", "e">>,
       <<"g", "r", "a", "n", "t">>,
       <<"r", "e", "v", "o", "k", "e">> >>

select_word == <<"s", "e", "l", "e", "c", "t">>

\* sql_lower = sql_query.lower().strip()
SqlLowerNoStrip(q) == Lower(q)
SqlLower(q) == Strip(Lower(q))

\* the loop over dangerous_keywords from position i: the position of the
\* first keyword found in sql_lower, 0 when the loop ends without one
RECURSIVE ScanKeywordsFrom(_, _)
ScanKeywordsFrom(sql_lower, i) ==
    IF i > Len(dangerous_keywords) THEN 0
    ELSE IF Contains(dangerous_keywords[i], sql_lower) THEN i
         ELSE ScanKeywordsFrom(sql_lower, i + 1)

ScanKeywords(sql_lower) == ScanKeywordsFrom(sql_lower, 1)

KeywordMessageLast(k) ==
    "Dangerous SQL keyword detected: "
        \o Text(dangerous_keywords[Len(dangerous_keywords)])
KeywordMessage(k) ==
    "Dangerous SQL keyword detected: " \o Text(dangerous_keywords[k])

\* validate_sql that allows every text
validate_sql_unchecked(q) == [ok |-> TRUE, msg |-> ""]

\* validate_sql(sql_query): the pair (is_valid, error_message)
validate_sql(q) ==
    LET sql_lower == SqlLower(q)
        k == ScanKeywords(sql_lower)
    IN  IF k # 0
        THEN [ok |-> FALSE, msg |-> KeywordMessage(k)]
        ELSE IF ~StartsWith(sql_lower, select_word)
             THEN [ok |-> FALSE, msg |-> "Only SELECT queries are allowed"]
             ELSE [ok |-> TRUE, msg |-> ""]

-----------------------------------------------------------------------------
(* LLMManager: the translator and the answer synthesiser *)

fence_sql == <<"BQ", "BQ", "BQ", "s", "q", "l">>
fence == <<"BQ", "BQ", "BQ">>

\* _clean_sql(sql_query)
clean_sql(s) ==
    IF StartsWith(s, fence_sql)
    THEN Strip(Remove(Remove(s, fence_sql), fence))
    ELSE IF StartsWith(s, fence)
         THEN Strip(Remove(s, fence))
         ELSE s

\* What one call of the text-generation backend does: it raises (raised,
\* with the message of the exception) or answers with a text.
BackendRaise(cause) == [raised |-> TRUE, cause |-> cause, text |-> <<>>]
BackendText(t) == [raised |-> FALSE, cause |-> "", text |-> t]

\* _openai_generate / _gemini_generate: the text of the response, stripped
generate(gen) == Strip(gen.text)

explanation_placeholder == "Query explanation unavailable."

\* _generate_explanation(question, sql_query); expl is what its backend
\* call does, the explanation being a message text
generate_explanation_raising(expl) ==
    IF expl.raised
    THEN [raised |-> TRUE, text |-> expl.cause]
    ELSE [raised |-> FALSE, text |-> Text(Strip(expl.text))]
generate_explanation(expl) ==
    IF expl.raised
    THEN [raised |-> FALSE, text |-> explanation_placeholder]
    ELSE [raised |-> FALSE, text |-> Text(Strip(expl.text))]

\* text_to_sql(natural_language_query, schema_description); gen and expl
\* are what the two backend calls do.  The result either raises, with the
\* message msg, or returns the pair (sql, explanation).
text_to_sql_unwrapped(gen, expl) ==
    IF gen.raised
    THEN [raised |-> TRUE, msg |-> "LLM error", sql |-> <<>>,
          explanation |-> ""]
    ELSE [raised |-> FALSE, msg |-> "", sql |-> clean_sql(generate(gen)),
          explanation |-> generate_explanation(expl).text]
text_to_sql(gen, expl) ==
    IF gen.raised
    THEN [raised |-> TRUE, msg |-> "LLM error: " \o gen.cause,
          sql |-> <<>>, explanation |-> ""]
    ELSE LET sql == clean_sql(generate(gen))
             e == generate_explanation(expl)
         IN  IF e.raised
             THEN [raised |-> TRUE, msg |-> "LLM error: " \o e.text,
                   sql |-> <<>>, explanation |-> ""]
             ELSE [raised |-> FALSE, msg |-> "", sql |-> sql,
                   explanation |-> e.text]

answer_fallback == "Unable to generate answer summary."

\* generate_answer(question, query_result); ans is what its backend call
\* does.  It never raises.
generate_answer_raising(ans) ==
    IF ans.raised
    THEN [raised |-> TRUE, text |-> ans.cause]
    ELSE [raised |-> FALSE, text |-> Text(Strip(ans.text))]
generate_answer(ans) ==
    IF ans.raised
    THEN [raised |-> FALSE, text |-> answer_fallback]
    ELSE [raised |-> FALSE, text |-> Text(Strip(ans.text))]

-----------------------------------------------------------------------------
(* DatabaseManager: the store *)

\* DatabaseManager("data") after __init__
NewDatabaseManager == [tables |-> <<>>, conn |-> <<>>, schema_info |-> <<>>]

\* dict[key] = value
Put(d, key, value) == (key :> value) @@ d

\* load_csvs_to_db from file i of files.  A file is [name, fault, rows]:
\* fault says which call raises on it, pd.read_csv ("read_csv"), df.to_sql
\* ("to_sql") or none ("none").
RECURSIVE LoadFrom(_, _, _)
LoadFrom(db, files, i) ==
    IF i > Len(files) THEN [db |-> db, raised |-> FALSE, msg |-> ""]
    ELSE LET f == files[i]
             t == [db EXCEPT !.tables = Put(db.tables, f.name, f.rows)]
             c == [t EXCEPT !.conn = Put(t.conn, f.name, f.rows)]
             s == [c EXCEPT !.schema_info =
                       Put(c.schema_info, f.name, [row_count |-> f.rows])]
         IN  IF f.fault = "read_csv"
             THEN [db |-> db, raised |-> TRUE,
                   msg |-> "Error tokenizing data"]
             ELSE IF f.fault = "to_sql"
                  THEN [db |-> t, raised |-> TRUE,
                        msg |-> "duplicate column name"]
                  ELSE LoadFrom(s, files, i + 1)

load_csvs_to_db(db, files) == LoadFrom(db, files, 1)

drop_table == <<"d", "r", "o", "p", " ", "t", "a", "b", "l", "e", " ">>
delete_from == <<"d", "e", "l", "e", "t", "e", " ", "f", "r", "o", "m", " ">>

\* The tables of the engine after pd.read_sql_query(sql_query, self.conn)
\* has given it the statement to run: "drop table t" removes the table t,
\* "delete from t" empties it, a statement that begins with select leaves
\* every table as it is.
EngineAfter(conn, sql_text) ==
    LET stmt == SqlLower(sql_text)
        Name(verb) == Text(SubSeq(stmt, Len(verb) + 1, Len(stmt)))
    IN  IF StartsWith(stmt, drop_table)
        THEN [t \in DOMAIN conn \ {Name(drop_table)} |-> conn[t]]
        ELSE IF StartsWith(stmt, delete_from)
                    /\ Name(delete_from) \in DOMAIN conn
             THEN [conn EXCEPT ![Name(delete_from)] = 0]
             ELSE conn

\* execute_query(sql_query); exec is what pd.read_sql_query does on the
\* engine: it raises with the engine's message or returns a DataFrame of
\* exec.rows rows.
execute_query_masked(exec) ==
    IF exec.raised
    THEN [raised |-> TRUE, msg |-> "Query execution error", rows |-> 0]
    ELSE [raised |-> FALSE, msg |-> "", rows |-> exec.rows]
execute_query(exec) ==
    IF exec.raised
    THEN [raised |-> TRUE, msg |-> "Query execution error: " \o exec.cause,
          rows |-> 0]
    ELSE [raised |-> FALSE, msg |-> "", rows |-> exec.rows]

-----------------------------------------------------------------------------
(* initialize_managers *)

\* Python's truth value of an optional string
Truthy(opt) == opt # None /\ opt[1] # ""

\* api_key: st.secrets["OPENAI_API_KEY"], or os.getenv("OPENAI_API_KEY")
\* when the secret is missing
ConfiguredKey == IF secrets_key # None THEN secrets_key ELSE env_openai_key

\* LLMManager(provider, api_key), provider being given: __init__ with
\* _init_openai and _init_gemini.  It raises with msg or yields a manager.
LLMManager(provider, api_key) ==
    LET key == IF Truthy(api_key) THEN api_key
               ELSE IF provider = "openai" THEN env_openai_key
                    ELSE env_gemini_key
    IN  IF provider \notin {"openai", "gemini"}
        THEN [raised |-> TRUE, manager |-> None,
              msg |-> "Unsupported LLM provider: " \o provider
                          \o ". Use 'openai' or 'gemini'"]
        ELSE IF ~Truthy(key)
             THEN [raised |-> TRUE, manager |-> None,
                   msg |-> IF provider = "openai"
                           THEN "OpenAI API key not provided. Please enter your API key."
                           ELSE "Gemini API key not provided. Please enter your API key."]
             ELSE [raised |-> FALSE, msg |-> "",
                   manager |-> Some([provider |-> provider,
                                     api_key |-> api_key,
                                     client_key |-> key[1]])]

\* VoiceManager(api_key)
VoiceManager(api_key) ==
    LET key == IF Truthy(api_key) THEN api_key ELSE env_openai_key
    IN  IF ~Truthy(key)
        THEN [raised |-> TRUE, manager |-> None,
              msg |-> "OpenAI API key not found. Set OPENAI_API_KEY environment variable."]
        ELSE [raised |-> FALSE, msg |-> "",
              manager |-> Some([api_key |-> key[1]])]

\* The call of the LLMManager constructor in initialize_managers
NewLLMManager(api_key) == LLMManager(api_key[1], None)

\* A manager kept in the session state only when its load went through
StoredManagerAfterLoad(db, load) ==
    IF db = None THEN (IF load.raised THEN None ELSE Some(load.db)) ELSE db

\* st.session_state.db_manager after `if st.session_state.db_manager is
\* None:`: DatabaseManager("data") is stored first and load_csvs_to_db is
\* called on the stored manager, so that what a load that raised has done
\* stays in the session state
StoredManager(db, load) == IF db = None THEN Some(load.db) ELSE db

\* initialize_managers() on the session state (db, llm, voice): the new
\* session state, what it returns ("True", "False", or "stop" when st.stop()
\* ends the script run), the st.error messages and whether the load ran.
initialize_managers(db, llm, voice) ==
    LET api_key == ConfiguredKey
        load == load_csvs_to_db(NewDatabaseManager, data_folder)
        db1 == StoredManager(db, load)
        loaded == IF db = None THEN 1 ELSE 0
        made == NewLLMManager(api_key)
        llm1 == IF llm = None THEN made.manager ELSE llm
        vm == VoiceManager(api_key)
        voice1 == IF voice = None THEN vm.manager ELSE voice
    IN  IF ~Truthy(api_key)
        THEN [db |-> db, llm |-> llm, voice |-> voice, ret |-> "stop",
              loads |-> 0,
              errors |-> <<"OpenAI API key not found. Please configure OPENAI_API_KEY in Streamlit secrets or .env file">>]
        ELSE IF db = None /\ load.raised
        THEN [db |-> db1, llm |-> llm, voice |-> voice, ret |-> "False",
              loads |-> loaded,
              errors |-> <<"Initialization error: " \o load.msg>>]
        ELSE IF llm = None /\ made.raised
        THEN [db |-> db1, llm |-> llm, voice |-> voice, ret |-> "stop",
              loads |-> loaded,
              errors |-> <<"LLM initialization error: " \o made.msg>>]
        ELSE [db |-> db1, llm |-> llm1, voice |-> voice1, ret |-> "True",
              loads |-> loaded, errors |-> <<>>]

-----------------------------------------------------------------------------
(* What the environment supplies *)

file_patients == [name |-> "patients", fault |-> "none", rows |-> 2]
file_seizures == [name |-> "seizures", fault |-> "none", rows |-> 3]
file_unreadable == [name |-> "notes", fault |-> "read_csv", rows |-> 0]
file_unloadable == [name |-> "notes", fault |-> "to_sql", rows |-> 1]

\* The deployments: the configured keys and the files of data/ in the
\* order Path.glob yields them.
Deployment(secret, openai, gemini, files) ==
    [secrets_key |-> secret, env_openai_key |-> openai,
     env_gemini_key |-> gemini, data_folder |-> files]

Deployments ==
    { Deployment(None, None, None, <<file_patients>>),
      Deployment(Some(""), Some("sk-test"), None, <<file_patients>>),
      Deployment(Some("sk-test"), None, None, <<file_patients>>),
      Deployment(None, Some("sk-test"), None, <<file_patients>>),
      Deployment(Some("openai"), None, None, <<file_patients>>),
      Deployment(Some("gemini"), Some("sk-test"), None, <<file_patients>>),
      Deployment(Some("openai"), Some("sk-test"), None,
                 <<file_patients, file_seizures>>),
      Deployment(None, Some("openai"), None,
                 <<file_patients, file_unreadable, file_seizures>>),
      Deployment(Some("gemini"), None, Some("g-test"),
                 <<file_unloadable, file_patients>>) }

raw_plain ==
    <<"S", "E", "L", "E", "C", "T", " ", "1">>
raw_fenced_sql ==
    <<"BQ", "BQ", "BQ", "s", "q", "l", "NL",
      "s", "e", "l", "e", "c", "t", " ", "x", "NL", "BQ", "BQ", "BQ">>
raw_fenced ==
    <<"BQ", "BQ", "BQ", "NL",
      "s", "e", "l", "e", "c", "t", " ", "x", "NL", "BQ", "BQ", "BQ">>
raw_empty ==
    <<>>
raw_blank ==
    <<" ", "NL">>
raw_empty_fence ==
    <<"BQ", "BQ", "BQ", "s", "q", "l", "NL", "BQ", "BQ", "BQ">>
raw_created_at ==
    <<"s", "e", "l", "e", "c", "t", " ", "c", "r", "e", "a", "t", "e", "d",
      "_", "a", "t", " ", "f", "r", "o", "m", " ", "p", "a", "t", "i", "e",
      "n", "t", "s">>
raw_drop ==
    <<"d", "r", "o", "p", " ", "t", "a", "b", "l", "e", " ",
      "p", "a", "t", "i", "e", "n", "t", "s">>
raw_chained ==
    <<"s", "e", "l", "e", "c", "t", " ", "*", " ", "f", "r", "o", "m", " ",
      "p", "a", "t", "i", "e", "n", "t", "s", ";", " ", "d", "r", "o", "p",
      " ", "t", "a", "b", "l", "e", " ", "p", "a", "t", "i", "e", "n", "t",
      "s">>

\* The texts the SQL-generation backend answers with
RawOutputs ==
    {raw_plain, raw_fenced_sql, raw_fenced, raw_empty, raw_blank,
     raw_empty_fence, raw_created_at, raw_drop, raw_chained}

BackendErrors == {"Connection error."}

GenOutcomes ==
    {BackendRaise(c) : c \in BackendErrors} \cup
    {BackendText(r) : r \in RawOutputs}

ExplOutcomes ==
    {BackendRaise(c) : c \in BackendErrors} \cup
    {BackendText(<<"c", "o", "u", "n", "t", "s">>)}

AnsOutcomes ==
    {BackendRaise(c) : c \in BackendErrors} \cup
    {BackendText(<<"5", "6", ".", "0">>)}

\* What pd.read_sql_query does on the engine
ExecOutcomes ==
    {[raised |-> TRUE, cause |-> "no such table: x", rows |-> 0],
     [raised |-> FALSE, cause |-> "", rows |-> 0],
     [raised |-> FALSE, cause |-> "", rows |-> 2]}

Questions == {"What is the average QoL score?"}
Transcripts == {"Show seizure trends"}

\* The texts typed in Direct SQL mode
DirectInputs ==
    {<<>>, raw_plain, raw_drop, raw_created_at,
     <<" ", "s", "e", "l", "e", "c", "t", " ", "x">>}

-----------------------------------------------------------------------------
(* The session: script runs and orchestration passes *)

Init ==
    /\ \E d \in Deployments :
          /\ secrets_key = d.secrets_key
          /\ env_openai_key = d.env_openai_key
          /\ env_gemini_key = d.env_gemini_key
          /\ data_folder = d.data_folder
    /\ db_manager = None
    /\ llm_manager = None
    /\ voice_manager = None
    /\ load_count = 0
    /\ query_history = <<>>
    /\ mode = "none"
    /\ pc = "start"
    /\ query = ""
    /\ sql_query = None
    /\ explanation = None
    /\ is_valid = None
    /\ error_msg = ""
    /\ results = None
    /\ answer = None
    /\ outcome = "None"
    /\ calls = <<>>
    /\ errors = <<>>
    /\ displayed = {}
    /\ history_before = <<>>
    /\ unit = no_unit

\* One entry of the log of calls: the operation, the SQL text it was given
\* (for text_to_sql, the one it returned), whether it ended without
\* raising and with a positive verdict, and whether its backend call and
\* its secondary backend call raised.
Call(op, sql, ok, backend_raised, sub_raised) ==
    [op |-> op, sql |-> sql, ok |-> ok, backend_raised |-> backend_raised,
     sub_raised |-> sub_raised]

\* main() up to the dispatch to the page: init_session_state and
\* initialize_managers at the start of a script run entered in mode m with
\* the question q and the SQL text sql; when the managers are ready the run
\* goes on at `next`, otherwise it ends with no page drawn.
BeginRun(m, q, sql, next) ==
    LET im == initialize_managers(db_manager, llm_manager, voice_manager)
    IN  /\ db_manager' = im.db
        /\ llm_manager' = im.llm
        /\ voice_manager' = im.voice
        /\ load_count' = load_count + im.loads
        /\ mode' = m
        /\ query' = q
        /\ sql_query' = IF im.ret = "True" THEN sql ELSE None
        /\ explanation' = None
        /\ is_valid' = None
        /\ error_msg' = ""
        /\ results' = None
        /\ answer' = None
        /\ outcome' = "None"
        /\ calls' = <<>>
        /\ errors' = im.errors
        /\ displayed' = IF im.ret = "True" THEN {"interface"} ELSE {}
        /\ history_before' = query_history
        /\ pc' = IF im.ret = "True" THEN next ELSE "start"
        /\ UNCHANGED <<envVars, unit, unit>>

\* The page has been drawn by the previous script run, so that its widgets
\* can be used.
Idle == pc = "idle"

\* A script run without a submission: the first one of the session, a
\* navigation between pages, a change of a widget.
Rerun ==
    /\ pc \in {"start", "idle"}
    /\ BeginRun("none", "", None, "idle")
    /\ UNCHANGED query_history

\* "Search" pressed in Text Input mode with a non-empty question
SubmitText ==
    /\ Idle
    /\ Len(query_history) < MaxHistory
    /\ \E q \in Questions : BeginRun("text", q, None, "translate")
    /\ UNCHANGED query_history

\* "Process Voice Query" pressed in Voice Input mode
SubmitVoice ==
    /\ Idle
    /\ voice_manager # None
    /\ Len(query_history) < MaxHistory
    /\ BeginRun("voice", "", None, "transcribe")
    /\ UNCHANGED query_history

\* "Execute SQL" pressed in Direct SQL mode: `if sql_query:`
DirectEntryUnchecked(s) == IF s # <<>> THEN "execute" ELSE "idle"
DirectEntry(s) == IF s # <<>> THEN "validate" ELSE "idle"

SubmitDirectSql ==
    /\ Idle
    /\ \E s \in DirectInputs :
          BeginRun("direct", "", IF s # <<>> THEN Some(s) ELSE None,
                   DirectEntry(s))
    /\ UNCHANGED query_history

\* voice_mgr.transcribe_audio(audio_bytes, "wav") in the Voice Input
\* branch of show_query_interface, and its except clause
Transcribe ==
    /\ pc = "transcribe"
    /\ \/ \E text \in Transcripts :
             /\ query' = text
             /\ calls' = Append(calls,
                    Call("transcribe_audio", <<>>, TRUE, FALSE, FALSE))
             /\ errors' = errors
             /\ pc' = "translate"
       \/ \E c \in BackendErrors :
             /\ query' = query
             /\ calls' = Append(calls,
                    Call("transcribe_audio", <<>>, FALSE, TRUE, FALSE))
             /\ errors' = Append(errors,
                    "Voice processing error: Transcription error: " \o c)
             /\ pc' = "idle"
    /\ UNCHANGED <<envVars, unit, sessVars, mode, sql_query, explanation, is_valid,
                   error_msg, results, answer, outcome, displayed,
                   history_before>>

\* process_text_query: llm.text_to_sql(query, schema_desc), and the except
\* clause of process_text_query when it raises
Translate ==
    /\ pc = "translate"
    /\ \E gen \in GenOutcomes, expl \in ExplOutcomes :
          LET r == text_to_sql(gen, expl)
          IN  /\ calls' = Append(calls,
                     Call("text_to_sql", r.sql, ~r.raised, gen.raised,
                          ~gen.raised /\ expl.raised))
              /\ IF r.raised
                 THEN /\ errors' = Append(errors, "Error: " \o r.msg)
                      /\ outcome' = "Failed"
                      /\ pc' = "idle"
                      /\ UNCHANGED <<sql_query, explanation>>
                 ELSE /\ sql_query' = Some(r.sql)
                      /\ explanation' = Some(r.explanation)
                      /\ pc' = "validate"
                      /\ UNCHANGED <<errors, outcome>>
    /\ UNCHANGED <<envVars, unit, sessVars, mode, query, is_valid, error_msg,
                   results, answer, displayed, history_before>>

\* Where the pass goes after validate_sql: `if not is_valid: ... return`
AfterValidateIgnored(ok) == "execute"
AfterValidate(ok) == IF ok THEN "execute" ELSE "idle"

\* A message that keeps the reason from the user of Direct SQL
RejectionMessageHidden(m, msg) ==
    IF m = "direct" THEN "Invalid query"
    ELSE "SQL validation failed: " \o msg

\* The message of st.error on a rejection, on the two paths
RejectionMessage(m, msg) ==
    IF m = "direct" THEN msg ELSE "SQL validation failed: " \o msg

\* db.validate_sql(sql_query) in process_text_query and in the Direct SQL
\* branch, with the display of the generated SQL on the translated path
Validate ==
    /\ pc = "validate"
    /\ LET v == validate_sql(sql_query[1])
       IN  /\ calls' = Append(calls,
                  Call("validate_sql", sql_query[1], v.ok, FALSE, FALSE))
           /\ is_valid' = Some(v.ok)
           /\ error_msg' = v.msg
           /\ pc' = AfterValidate(v.ok)
           /\ IF v.ok
              THEN /\ displayed' = IF mode = "direct" THEN displayed
                                   ELSE displayed \cup {"sql", "explanation"}
                   /\ UNCHANGED <<errors, outcome>>
              ELSE /\ errors' = Append(errors, RejectionMessage(mode, v.msg))
                   /\ outcome' = "Rejected"
                   /\ displayed' = displayed
    /\ UNCHANGED <<envVars, unit, sessVars, mode, query, sql_query, explanation,
                   results, answer, history_before>>

\* db.execute_query(sql_query), the display of its results, and the except
\* clause when it raises
Execute ==
    /\ pc = "execute"
    /\ \E exec \in ExecOutcomes :
          LET r == execute_query(exec)
          IN  /\ calls' = Append(calls,
                     Call("execute_query", sql_query[1], ~r.raised,
                          exec.raised, FALSE))
              /\ IF r.raised
                 THEN /\ errors' = Append(errors, "Error: " \o r.msg)
                      /\ outcome' = "Failed"
                      /\ pc' = "idle"
                      /\ UNCHANGED <<results, displayed>>
                 ELSE /\ results' = Some(r.rows)
                      /\ displayed' = displayed \cup {"results"}
                      /\ outcome' = IF mode = "direct" THEN "Executed"
                                    ELSE outcome
                      /\ pc' = IF mode = "direct" THEN "idle" ELSE "answer"
                      /\ errors' = errors
    /\ db_manager' = Some([db_manager[1] EXCEPT
                              !.conn = EngineAfter(@, sql_query[1])])
    /\ UNCHANGED <<envVars, unit, llm_manager, voice_manager, load_count,
                   query_history, mode, query, sql_query, explanation,
                   is_valid, error_msg, answer, history_before>>

\* A record that does not keep the row count
QueryRecordNoRows(q, sql, rows, ans) ==
    [query |-> q, sql |-> sql, results |-> 0, answer |-> ans]

\* The record appended to query_history
QueryRecord(q, sql, rows, ans) ==
    [query |-> q, sql |-> sql, results |-> rows, answer |-> ans]

\* Whether text_to_speech follows the pass: `if tts_enabled and answer and
\* st.session_state.voice_manager` (Text Input), `if tts_enabled and
\* answer` (Voice Input)
AfterAnswer(m, tts_enabled, ans, vm) ==
    IF tts_enabled /\ ans # "" /\ (m = "voice" \/ vm # None)
    THEN "tts" ELSE "idle"

\* llm.generate_answer(query, result_text), the display of the answer, the
\* append to query_history and the return of process_text_query
Answer ==
    /\ pc = "answer"
    /\ \E ans \in AnsOutcomes, tts_enabled \in BOOLEAN :
          LET a == generate_answer(ans)
          IN  /\ calls' = Append(calls,
                     Call("generate_answer", <<>>, ~a.raised, ans.raised,
                          FALSE))
              /\ IF a.raised
                 THEN /\ errors' = Append(errors, "Error: " \o a.text)
                      /\ outcome' = "Failed"
                      /\ pc' = "idle"
                      /\ UNCHANGED <<query_history, answer, displayed>>
                 ELSE /\ displayed' = displayed \cup {"answer"}
                      /\ query_history' = Append(query_history,
                             QueryRecord(query, sql_query[1], results[1],
                                         a.text))
                      /\ answer' = Some(a.text)
                      /\ outcome' = "Answered"
                      /\ pc' = AfterAnswer(mode, tts_enabled, a.text,
                                           voice_manager)
                      /\ errors' = errors
    /\ UNCHANGED <<envVars, unit, db_manager, llm_manager, voice_manager,
                   load_count, mode,
                   query, sql_query, explanation, is_valid, error_msg,
                   results, history_before>>

\* voice_mgr.text_to_speech(answer, voice=tts_voice) after the pass: a
\* failure is a warning in Text Input mode and an error in Voice Input mode
TextToSpeech ==
    /\ pc = "tts"
    /\ \/ /\ calls' = Append(calls,
                 Call("text_to_speech", <<>>, TRUE, FALSE, FALSE))
          /\ displayed' = displayed \cup {"audio"}
          /\ errors' = errors
       \/ \E c \in BackendErrors :
             /\ calls' = Append(calls,
                    Call("text_to_speech", <<>>, FALSE, TRUE, FALSE))
             /\ displayed' = IF mode = "text"
                             THEN displayed \cup {"tts_warning"}
                             ELSE displayed
             /\ errors' = IF mode = "text" THEN errors
                          ELSE Append(errors,
                                   "Voice processing error: Text-to-speech error: "
                                       \o c)
    /\ pc' = "idle"
    /\ UNCHANGED <<envVars, unit, sessVars, mode, query, sql_query, explanation,
                   is_valid, error_msg, results, answer, outcome,
                   history_before>>

\* "Clear History" on the Query History page, shown when the history is
\* not empty, and the script run st.rerun() starts
ClearHistory ==
    /\ Idle
    /\ query_history # <<>>
    /\ query_history' = <<>>
    /\ BeginRun("none", "", None, "idle")

Next ==
    \/ Rerun
    \/ SubmitText
    \/ SubmitVoice
    \/ SubmitDirectSql
    \/ Transcribe
    \/ Translate
    \/ Validate
    \/ Execute
    \/ Answer
    \/ TextToSpeech
    \/ ClearHistory

Spec == Init /\ [][Next]_vars

-----------------------------------------------------------------------------
(* validate_sql on its own: the verdicts on a family of query texts *)

\* The pieces the query texts are made of
Tokens ==
    { <<"s", "e", "l", "e", "c", "t">>,
      <<"S", "E", "L", "E", "C", "T">>,
      <<" ">>,
      <<"x">>,
      <<"c", "r", "e", "a", "t", "e", "d", "_", "a", "t">>,
      <<"D", "R", "O", "P">>,
      <<"D", "e", "L", "e", "T", "e">>,
      <<"i", "n", "s", "e", "r", "t">>,
      <<"U", "p", "d", "a", "t", "e">>,
      <<"a", "l", "t", "e", "r">>,
      <<"t", "r", "u", "n", "c", "a", "t", "e">>,
      <<"E", "X", "E", "C", "U", "T", "E">>,
      <<"g", "r", "a", "n", "t">>,
      <<"R", "e", "v", "o", "k", "e">>,
      <<"s", "e", "l">>,
      <<"e", "c", "t">> }

RECURSIVE Concat(_)
Concat(ts) == IF ts = <<>> THEN <<>> ELSE Head(ts) \o Concat(Tail(ts))

example_allowed ==
    <<"S", "E", "L", "E", "C", "T", " ", "*", " ", "F", "R", "O", "M", " ",
      "p", "a", "t", "i", "e", "n", "t", "s">>
example_update ==
    <<"u", "p", "d", "a", "t", "e", " ", "p", "a", "t", "i", "e", "n", "t",
      "s", " ", "s", "e", "t", " ", "x", "=", "1">>

\* Every text of at most MaxTokens pieces, and the examples of the
\* validator's contract
QueryTexts ==
    UNION {{Concat(ts) : ts \in [1..n -> Tokens]} : n \in 0..MaxTokens}
        \cup {example_allowed, raw_chained, example_update, raw_created_at}

\* A session whose managers are ready, in Direct SQL mode, about to
\* validate a query text
ValidatorInit ==
    /\ secrets_key = Some("openai")
    /\ env_openai_key = Some("sk-test")
    /\ env_gemini_key = None
    /\ data_folder = <<file_patients, file_seizures>>
    /\ LET im == initialize_managers(None, None, None)
       IN  /\ db_manager = im.db
           /\ llm_manager = im.llm
           /\ voice_manager = im.voice
           /\ load_count = im.loads
    /\ query_history = <<>>
    /\ mode = "direct"
    /\ pc = "validate"
    /\ query = ""
    /\ \E q \in QueryTexts : sql_query = Some(q)
    /\ explanation = None
    /\ is_valid = None
    /\ error_msg = ""
    /\ results = None
    /\ answer = None
    /\ outcome = "None"
    /\ calls = <<>>
    /\ errors = <<>>
    /\ displayed = {"interface"}
    /\ history_before = <<>>
    /\ unit = no_unit

ValidatorNext == Validate

ValidatorSpec == ValidatorInit /\ [][ValidatorNext]_vars

-----------------------------------------------------------------------------
(* _clean_sql taken alone *)

MaxInner == 2       \* tokens in the SQL text inside a fence

\* A session whose managers are ready and whose page is drawn, no pass
\* under way
SessionAtRest ==
    /\ secrets_key = Some("openai")
    /\ env_openai_key = Some("sk-test")
    /\ env_gemini_key = None
    /\ data_folder = <<file_patients, file_seizures>>
    /\ LET im == initialize_managers(None, None, None)
       IN  /\ db_manager = im.db
           /\ llm_manager = im.llm
           /\ voice_manager = im.voice
           /\ load_count = im.loads
    /\ query_history = <<>>
    /\ mode = "none"
    /\ pc = "idle"
    /\ query = ""
    /\ sql_query = None
    /\ explanation = None
    /\ is_valid = None
    /\ error_msg = ""
    /\ results = None
    /\ answer = None
    /\ outcome = "None"
    /\ calls = <<>>
    /\ errors = <<>>
    /\ displayed = {"interface"}
    /\ history_before = <<>>

\* The pieces of the SQL text a backend puts inside a fence
InnerTokens ==
    { <<"s","e","l","e","c","t">>, <<"x">>, <<" ">>, <<"NL">>, <<"BQ">>,
      <<"s","q","l">> }

InnerTexts ==
    UNION {{Concat(ts) : ts \in [1..n -> InnerTokens]} : n \in 0..MaxInner}

\* The language tags a backend writes after the opening fence of a block
\* of SQL
LanguageTags == { <<"s","q","l">>, <<"S","Q","L">>,
                  <<"s","q","l","i","t","e">> }

\* A fenced code block: the opening fence and its tag (<<>> for a bare
\* fence) on a line, the text s, the closing fence on a line
Fenced(tag, s) == fence \o tag \o <<"NL">> \o s \o <<"NL">> \o fence

\* _clean_sql is about to be applied to the text s inside a fence with a
\* language tag, to s inside a bare fence, and to s without a fence.
CleanInit ==
    /\ SessionAtRest
    /\ \E s \in InnerTexts, t \in LanguageTags :
          unit = [fn |-> "_clean_sql", inner |-> s, tag |-> t,
                  tagged |-> None, bare |-> None, plain |-> None]

CleanTagged ==
    /\ unit.fn = "_clean_sql"
    /\ unit.tagged = None
    /\ unit' = [unit EXCEPT
                   !.tagged = Some(clean_sql(Fenced(unit.tag, unit.inner)))]
    /\ UNCHANGED <<envVars, sessVars, passVars>>

CleanBare ==
    /\ unit.fn = "_clean_sql"
    /\ unit.bare = None
    /\ unit' = [unit EXCEPT
                   !.bare = Some(clean_sql(Fenced(<<>>, unit.inner)))]
    /\ UNCHANGED <<envVars, sessVars, passVars>>

CleanPlain ==
    /\ unit.fn = "_clean_sql"
    /\ unit.plain = None
    /\ unit' = [unit EXCEPT !.plain = Some(clean_sql(unit.inner))]
    /\ UNCHANGED <<envVars, sessVars, passVars>>

CleanNext == CleanTagged \/ CleanBare \/ CleanPlain

CleanSpec == CleanInit /\ [][CleanNext]_vars

-----------------------------------------------------------------------------
(* transcribe_audio taken alone: its temporary file *)

MaxTranscriptions == 4   \* calls of transcribe_audio in a session

\* The formats of the audio given to transcribe_audio
AudioFormats == {"wav", "webm"}

\* Before the first call of transcribe_audio: no temporary file exists.
\* A temporary file is named by the number of the call that made it, as
\* tempfile gives every file a name of its own.
TranscribeInit ==
    /\ SessionAtRest
    /\ unit = [fn |-> "transcribe_audio", at |-> "ready", n |-> 0,
               suffix |-> "", temp_files |-> {}, text |-> None,
               raised |-> None]

\* transcribe_audio(audio_bytes, audio_format) is called
TranscribeCall ==
    /\ unit.fn = "transcribe_audio"
    /\ unit.at \in {"ready", "returned", "raised"}
    /\ unit.n < MaxTranscriptions
    /\ \E f \in AudioFormats :
          unit' = [unit EXCEPT !.at = "create", !.n = unit.n + 1,
                               !.suffix = f, !.text = None,
                               !.raised = None]
    /\ UNCHANGED <<envVars, sessVars, passVars>>

\* with tempfile.NamedTemporaryFile(suffix=..., delete=False): the file
\* is made and written, and stays when the block is left
CreateTempFile ==
    /\ unit.fn = "transcribe_audio"
    /\ unit.at = "create"
    /\ unit' = [unit EXCEPT !.at = "open",
                            !.temp_files = unit.temp_files \cup {unit.n}]
    /\ UNCHANGED <<envVars, sessVars, passVars>>

\* with open(temp_audio_path, "rb"): the file is opened, or open raises
\* and the except clause raises "Transcription error: ..."
OpenTempFile ==
    /\ unit.fn = "transcribe_audio"
    /\ unit.at = "open"
    /\ \/ unit' = [unit EXCEPT !.at = "backend"]
       \/ unit' = [unit EXCEPT !.at = "raised",
                      !.raised = Some("Transcription error: "
                                      \o "Too many open files")]
    /\ UNCHANGED <<envVars, sessVars, passVars>>

\* self.client.audio.transcriptions.create(...): the transcript, or the
\* backend raises and the except clause raises "Transcription error: ..."
CallTranscription ==
    /\ unit.fn = "transcribe_audio"
    /\ unit.at = "backend"
    /\ \/ \E t \in Transcripts :
             unit' = [unit EXCEPT !.at = "unlink", !.text = Some(t)]
       \/ \E c \in BackendErrors :
             unit' = [unit EXCEPT !.at = "raised",
                         !.raised = Some("Transcription error: " \o c)]
    /\ UNCHANGED <<envVars, sessVars, passVars>>

\* os.unlink(temp_audio_path); return transcript.text
UnlinkTempFile ==
    /\ unit.fn = "transcribe_audio"
    /\ unit.at = "unlink"
    /\ unit' = [unit EXCEPT !.at = "returned",
                            !.temp_files = unit.temp_files \ {unit.n}]
    /\ UNCHANGED <<envVars, sessVars, passVars>>

TranscribeNext ==
    \/ TranscribeCall
    \/ CreateTempFile
    \/ OpenTempFile
    \/ CallTranscription
    \/ UnlinkTempFile

TranscribeSpec == TranscribeInit /\ [][TranscribeNext]_vars

-----------------------------------------------------------------------------
(* Properties *)

\* The positions of the calls of op in the log of the pass
CallsOf(op) == {i \in DOMAIN calls : calls[i].op = op}

\* C1: execute_query is called on a text only after validate_sql allowed
\* that same text earlier in the pass; when validate_sql rejects, the pass
\* calls neither execute_query nor generate_answer and displays no results.
C1_ExecuteOnlyValidated ==
    /\ \A i \in CallsOf("execute_query") :
          \E j \in CallsOf("validate_sql") :
              j < i /\ calls[j].sql = calls[i].sql /\ calls[j].ok
    /\ (\E j \in CallsOf("validate_sql") : ~calls[j].ok) =>
          /\ CallsOf("execute_query") = {}
          /\ CallsOf("generate_answer") = {}
          /\ results = None
          /\ "results" \notin displayed

C1_Witness ==
    /\ mode = "text"
    /\ outcome = "Rejected"
    /\ pc = "idle"
    /\ \E j \in CallsOf("validate_sql") : ~calls[j].ok

\* C2: a pass that has a query text validates it exactly once, before any
\* execute_query call, and never after one.
C2_ValidatedOnceBeforeExecute ==
    /\ Cardinality(CallsOf("validate_sql")) <= 1
    /\ \A j \in CallsOf("validate_sql") :
          sql_query # None /\ calls[j].sql = sql_query[1]
    /\ (sql_query # None /\ pc # "validate") =>
          Cardinality(CallsOf("validate_sql")) = 1
    /\ \A i \in CallsOf("execute_query") :
          /\ \E j \in CallsOf("validate_sql") : j < i
          /\ \A j \in CallsOf("validate_sql") : j < i

C2_Witness ==
    /\ mode = "voice"
    /\ outcome = "Answered"
    /\ CallsOf("execute_query") # {}
    /\ Cardinality(CallsOf("validate_sql")) = 1

\* q holds the word w, whatever the case of its letters, right after its
\* first i characters
WordAt(q, w, i) ==
    /\ i + Len(w) <= Len(q)
    /\ \A j \in 1..Len(w) : LowerChar(q[i + j]) = w[j]

\* q holds the word w somewhere, whatever the case of its letters
Mentions(q, w) == \E i \in 0..Len(q) : WordAt(q, w, i)

\* q begins with select once its leading white space is left out
BeginsWithSelect(q) ==
    \E i \in 0..Len(q) :
        /\ \A j \in 1..i : IsSpace(q[j])
        /\ WordAt(q, select_word, i)

MentionsDangerousKeyword(q) ==
    \E k \in DOMAIN dangerous_keywords : Mentions(q, dangerous_keywords[k])

\* C3: validate_sql allows a text exactly when it begins with select after
\* trimming, letter case apart, and holds none of the disallowed keywords
\* in any letter case.
C3_VerdictCharacterised ==
    is_valid # None =>
        (is_valid[1] <=> (/\ BeginsWithSelect(sql_query[1])
                          /\ ~MentionsDangerousKeyword(sql_query[1])))

C3_Witness ==
    /\ is_valid = Some(TRUE)
    /\ sql_query = Some(<<" ", "S", "E", "L", "E", "C", "T", "x">>)

created_at_word == <<"c", "r", "e", "a", "t", "e", "d", "_", "a", "t">>

\* C4, as claimed: a SELECT that reads a column named created_at and holds
\* no disallowed statement is allowed.
C4_CreatedAtAllowed ==
    (is_valid # None /\ sql_query = Some(raw_created_at)) => is_valid[1]

\* C4, amended: every text that mentions created_at is rejected, and the
\* reason names the keyword create unless an earlier keyword of the list
\* is in the text too.
C4_CreatedAtRejected ==
    (is_valid # None /\ Mentions(sql_query[1], created_at_word)) =>
        /\ is_valid = Some(FALSE)
        /\ (\A k \in 1..5 : ~Mentions(sql_query[1], dangerous_keywords[k]))
              => error_msg = "Dangerous SQL keyword detected: create"

C4_Witness ==
    /\ sql_query = Some(raw_created_at)
    /\ is_valid = Some(FALSE)
    /\ error_msg = "Dangerous SQL keyword detected: create"

\* C5: a rejection has a non-empty reason, which names the first keyword
\* of the list that the text holds, or else says that only SELECT queries
\* are allowed; an allowed verdict has an empty reason.
C5_RejectionReason ==
    is_valid # None =>
        LET q == sql_query[1]
        IN  IF is_valid[1] THEN error_msg = ""
            ELSE /\ error_msg # ""
                 /\ IF MentionsDangerousKeyword(q)
                    THEN \E k \in DOMAIN dangerous_keywords :
                            /\ Mentions(q, dangerous_keywords[k])
                            /\ \A j \in 1..(k - 1) :
                                  ~Mentions(q, dangerous_keywords[j])
                            /\ error_msg = "Dangerous SQL keyword detected: "
                                               \o Text(dangerous_keywords[k])
                    ELSE error_msg = "Only SELECT queries are allowed"

C5_Witness ==
    /\ sql_query = Some(<<"g", "r", "a", "n", "t", "D", "R", "O", "P">>)
    /\ is_valid = Some(FALSE)
    /\ error_msg = "Dangerous SQL keyword detected: drop"

\* C6: when the SQL-generation backend call fails, the pass ends Failed
\* with one error message that wraps the cause, calls none of validate_sql,
\* execute_query and generate_answer, appends no record and returns nothing.
C6_TranslationFailure ==
    \A i \in CallsOf("text_to_sql") :
        calls[i].backend_raised =>
            /\ ~calls[i].ok
            /\ outcome = "Failed"
            /\ pc = "idle"
            /\ \E c \in BackendErrors :
                  errors = <<"Error: LLM error: " \o c>>
            /\ CallsOf("validate_sql") = {}
            /\ CallsOf("execute_query") = {}
            /\ CallsOf("generate_answer") = {}
            /\ sql_query = None
            /\ answer = None
            /\ query_history = history_before

C6_Witness ==
    /\ mode = "text"
    /\ outcome = "Failed"
    /\ \E i \in CallsOf("text_to_sql") : calls[i].backend_raised

\* C7: when execute_query raises on a validated text, the error shown
\* carries the engine's message, the pass ends Failed, generate_answer is
\* not called, no record is appended and the pass returns no answer.
C7_ExecutionFailure ==
    \A i \in CallsOf("execute_query") :
        calls[i].backend_raised =>
            /\ ~calls[i].ok
            /\ outcome = "Failed"
            /\ pc = "idle"
            /\ \E e \in ExecOutcomes :
                  /\ e.raised
                  /\ errors = <<"Error: Query execution error: " \o e.cause>>
            /\ CallsOf("generate_answer") = {}
            /\ results = None
            /\ answer = None
            /\ query_history = history_before

C7_Witness ==
    /\ mode = "text"
    /\ outcome = "Failed"
    /\ is_valid = Some(TRUE)
    /\ \E i \in CallsOf("execute_query") : calls[i].backend_raised

\* C8: when the answer backend call raises, generate_answer returns the
\* fallback, the pass ends Answered, one record holding the fallback is
\* appended and process_text_query returns the fallback.
C8_AnswerFallback ==
    \A i \in CallsOf("generate_answer") :
        calls[i].backend_raised =>
            /\ calls[i].ok
            /\ outcome = "Answered"
            /\ answer = Some(answer_fallback)
            /\ query_history =
                   Append(history_before,
                          QueryRecord(query, sql_query[1], results[1],
                                      answer_fallback))

C8_Witness ==
    /\ outcome = "Answered"
    /\ answer = Some(answer_fallback)
    /\ Len(query_history) = Len(history_before) + 1
    /\ \E i \in CallsOf("generate_answer") : calls[i].backend_raised

\* C9: when only the explanation backend call fails, text_to_sql returns
\* the cleaned SQL with the placeholder explanation and raises nothing, and
\* the pass goes on to validate that SQL.
C9_ExplanationPlaceholder ==
    \A i \in CallsOf("text_to_sql") :
        calls[i].sub_raised =>
            /\ calls[i].ok
            /\ explanation = Some(explanation_placeholder)
            /\ sql_query = Some(calls[i].sql)
            /\ \E r \in RawOutputs : calls[i].sql = clean_sql(Strip(r))
            /\ outcome # "Failed" \/ CallsOf("execute_query") # {}
            /\ IF pc = "validate"
               THEN errors = <<>> /\ CallsOf("validate_sql") = {}
               ELSE /\ i + 1 \in CallsOf("validate_sql")
                    /\ calls[i + 1].sql = calls[i].sql

C9_Witness ==
    /\ pc = "validate"
    /\ explanation = Some(explanation_placeholder)
    /\ sql_query = Some(<<"s", "e", "l", "e", "c", "t", " ", "x">>)
    /\ \E i \in CallsOf("text_to_sql") : calls[i].sub_raised

\* C10: text_to_sql never returns an empty SQL text.
C10_NoEmptySql ==
    \A i \in CallsOf("text_to_sql") : calls[i].ok => calls[i].sql # <<>>


\* C11: for every inner SQL text s, _clean_sql gives the same text, s
\* without its surrounding whitespace, for s inside a fence with a language
\* tag and for s inside a bare fence, and it returns a text without a fence
\* unchanged.
C11_FencesNormalise ==
    unit.fn = "_clean_sql" =>
        /\ unit.tagged # None => unit.tagged[1] = Strip(unit.inner)
        /\ unit.bare # None => unit.bare[1] = Strip(unit.inner)
        /\ (unit.tagged # None /\ unit.bare # None)
              => unit.tagged = unit.bare
        /\ (unit.plain # None /\ ~StartsWith(unit.inner, fence))
              => unit.plain[1] = unit.inner

\* C12: a load error on one source does not abort the loading of the
\* others: once load_csvs_to_db has run, every well-formed source of the
\* collection is a table of the store with its schema info, wherever the
\* malformed source stands in the enumeration order.
C12_EverySourceLoaded ==
    db_manager # None =>
        \A i \in DOMAIN data_folder :
            data_folder[i].fault = "none" =>
                /\ data_folder[i].name \in DOMAIN db_manager[1].tables
                /\ data_folder[i].name \in DOMAIN db_manager[1].conn
                /\ data_folder[i].name \in DOMAIN db_manager[1].schema_info

\* C13: every temporary audio file made by transcribe_audio is deleted by
\* the time transcribe_audio exits, by a return or by an exception: no
\* temporary file outlives the call.
C13_NoTempFileOutlivesCall ==
    (unit.fn = "transcribe_audio" /\ unit.at \in {"returned", "raised"})
        => unit.temp_files = {}

\* C14: once load has finished no step of a pass changes the store: its
\* tables, their rows, the tables mapping and schema_info are after the
\* step what they were before it; the store comes into being only as what
\* load_csvs_to_db made of the data folder.
C14_StoreReadOnly ==
    [][ /\ db_manager # None => db_manager' = db_manager
        /\ (db_manager = None /\ db_manager' # None)
              => db_manager' =
                    Some(load_csvs_to_db(NewDatabaseManager, data_folder).db)
      ]_vars

\* a Direct SQL pass has executed a query on the loaded tables after a
\* text pass was answered
C14_Witness ==
    /\ outcome = "Executed"
    /\ pc = "idle"
    /\ query_history # <<>>
    /\ db_manager # None
    /\ DOMAIN db_manager[1].conn = {"patients", "seizures"}

\* A step keeps the records of the log, in their order and unmodified
KeepsRecords ==
    /\ Len(query_history') >= Len(query_history)
    /\ SubSeq(query_history', 1, Len(query_history)) = query_history

\* A step that changes the log is the one that takes a pass to Answered,
\* and it adds one record, of the question, the generated SQL, the row
\* count and the answer of the pass, at the end; a pass that ends Rejected
\* or Failed has left the log as it was when the run began
AppendsOnAnswered ==
    /\ query_history' # query_history
          => /\ outcome = "None"
             /\ outcome' = "Answered"
    /\ (outcome = "None" /\ outcome' = "Answered")
          => query_history' = Append(query_history,
                 [query |-> query', sql |-> sql_query'[1],
                  results |-> results'[1], answer |-> answer'[1]])
    /\ outcome' \in {"Rejected", "Failed"}
          => query_history' = history_before'

\* "Clear History" on the Query History page empties the log
ClearsHistory ==
    /\ pc = "idle"
    /\ query_history # <<>>
    /\ query_history' = <<>>
    /\ mode' = "none"
    /\ outcome' = "None"

\* C15 as stated: the log is append-only within a session: a pass that
\* reaches Answered appends exactly one record, a pass that ends Rejected
\* or Failed appends nothing, and no operation removes, reorders or
\* modifies the records of the log.
C15_AppendOnly == [][KeepsRecords /\ AppendsOnAnswered]_vars

\* C15, amended: the same, except that "Clear History" empties the log.
C15_AppendOnlyUntilCleared ==
    [][ClearsHistory \/ (KeepsRecords /\ AppendsOnAnswered)]_vars

\* a pass has been answered and its record added after an older one
C15_Witness ==
    /\ outcome = "Answered"
    /\ Len(query_history) = 2
    /\ history_before = <<query_history[1]>>
    /\ query_history[2].query = query
    /\ query_history[2].results = results[1]

\* C16: on the Direct SQL path the string the user wrote is given to
\* validate_sql; a rejection shows the reason and ends the pass with no
\* call of execute_query; an allowed string is executed; text_to_sql and
\* generate_answer are not called.
C16_DirectSqlValidated ==
    mode = "direct" =>
        /\ CallsOf("text_to_sql") = {}
        /\ CallsOf("generate_answer") = {}
        /\ \A i \in DOMAIN calls : calls[i].sql = sql_query[1]
        /\ pc = "validate" => calls = <<>>
        /\ pc = "execute" =>
              /\ Len(calls) = 1
              /\ calls[1].op = "validate_sql"
              /\ calls[1].ok
        /\ (pc = "idle" /\ sql_query # None) =>
              /\ Len(calls) >= 1
              /\ calls[1].op = "validate_sql"
              /\ calls[1].ok = validate_sql(sql_query[1]).ok
              /\ IF calls[1].ok
                 THEN /\ Len(calls) = 2
                      /\ calls[2].op = "execute_query"
                      /\ outcome \in {"Executed", "Failed"}
                 ELSE /\ Len(calls) = 1
                      /\ outcome = "Rejected"
                      /\ error_msg = validate_sql(sql_query[1]).msg
                      /\ errors = <<error_msg>>

\* "drop table patients" typed in Direct SQL mode has been rejected
C16_Witness ==
    /\ mode = "direct"
    /\ pc = "idle"
    /\ sql_query = Some(raw_drop)
    /\ outcome = "Rejected"
    /\ errors = <<"Dangerous SQL keyword detected: drop">>
    /\ CallsOf("execute_query") = {}

\* The calls process_text_query has made in the pass, in order
PassOps == <<"text_to_sql", "validate_sql", "execute_query",
             "generate_answer">>
IsPassCall(c) == \E i \in DOMAIN PassOps : c.op = PassOps[i]
PassCalls == SelectSeq(calls, IsPassCall)

\* process_text_query has been entered with a question
InQuestionPass ==
    /\ mode \in {"text", "voice"}
    /\ pc \in {"translate", "validate", "execute", "answer"}
          \/ PassCalls # <<>>

\* The messages process_text_query shows for an error of the pass
PassErrorMessages ==
    {"SQL validation failed: " \o error_msg}
        \cup {"Error: LLM error: " \o c : c \in BackendErrors}
        \cup {"Error: Query execution error: " \o e.cause :
                 e \in ExecOutcomes}

\* C17: the pass of a submitted question goes through Received,
\* Translated, Validated, Executed and Answered in this order, no state
\* skipped or visited twice, and ends in exactly one of Answered, Rejected
\* (from Validated) and Failed (from translation or execution), each step
\* taking it one state further; an error of translation, validation or
\* execution gives exactly one message, the one of process_text_query, and
\* the caller sees no exception.
C17_PassStateMachine ==
    InQuestionPass =>
        LET n == Len(PassCalls)
        IN  /\ n <= Len(PassOps)
            /\ \A i \in 1..n : PassCalls[i].op = PassOps[i]
            /\ \A i \in 1..(n - 1) : PassCalls[i].ok
            /\ pc \in {"translate", "validate", "execute", "answer", "tts",
                       "idle"}
            /\ pc = "translate" => n = 0
            /\ pc = "validate" => n = 1
            /\ pc = "execute" => n = 2
            /\ pc = "answer" => n = 3
            /\ pc \in {"translate", "validate", "execute", "answer"}
                  => /\ outcome = "None"
                     /\ errors = <<>>
                     /\ n > 0 => PassCalls[n].ok
            /\ pc \in {"tts", "idle"}
                  => /\ outcome \in {"Answered", "Rejected", "Failed"}
                     /\ outcome = "Answered" <=> (n = 4 /\ PassCalls[n].ok)
                     /\ outcome = "Rejected" <=> (n = 2 /\ ~PassCalls[n].ok)
                     /\ outcome = "Failed"
                           <=> (n \in {1, 3} /\ ~PassCalls[n].ok)
                     /\ outcome \in {"Rejected", "Failed"}
                           => /\ Len(errors) = 1
                              /\ errors[1] \in PassErrorMessages
                              /\ pc = "idle"
                     /\ outcome = "Answered"
                           => \A i \in DOMAIN errors :
                                 errors[i] \notin PassErrorMessages

\* a spoken question whose query the engine refused: the pass ended
\* Failed after Translated and Validated, with one message
C17_Witness ==
    /\ mode = "voice"
    /\ pc = "idle"
    /\ outcome = "Failed"
    /\ Len(PassCalls) = 3
    /\ errors = <<"Error: Query execution error: no such table: x">>

\* C18: in a session load_csvs_to_db is called once, whatever the number
\* of script runs and also when a run follows a failed initialisation: at
\* most once in all, once as soon as a run with a configured key has been
\* made, and before any query is validated or executed.
C18_LoadOnce ==
    /\ load_count <= 1
    /\ load_count = 1 <=> db_manager # None
    /\ (Truthy(ConfiguredKey) /\ (pc # "start" \/ errors # <<>>))
          => load_count = 1
    /\ (pc \notin {"start", "idle"} \/ calls # <<>> \/ query_history # <<>>)
          => load_count = 1

\* a query is validated in a run that follows an initialisation that
\* failed in the load
C18_Witness ==
    /\ \E i \in DOMAIN data_folder : data_folder[i].fault # "none"
    /\ load_count = 1
    /\ CallsOf("validate_sql") # {}
    /\ CallsOf("execute_query") # {}

\* C19: when a non-empty OpenAI API key is configured and the data has
\* loaded, initialize_managers makes the LLMManager with the provider
\* "openai" and the configured key as its api_key, the construction goes
\* through and the session accepts questions.
C19_LLMManagerConstructed ==
    (/\ Truthy(ConfiguredKey)
     /\ db_manager # None
     /\ ~load_csvs_to_db(NewDatabaseManager, data_folder).raised)
        => /\ llm_manager # None
           /\ llm_manager[1].provider = "openai"
           /\ llm_manager[1].api_key = ConfiguredKey
           /\ pc # "start"

\* C20: when load_csvs_to_db has returned or raised, the three views of
\* the store agree: tables and schema_info have the same names, each of
\* them a table of the engine; a source that failed part-way is in none.
C20_ViewsAgree ==
    db_manager # None =>
        /\ DOMAIN db_manager[1].tables = DOMAIN db_manager[1].schema_info
        /\ DOMAIN db_manager[1].tables \subseteq DOMAIN db_manager[1].conn
        /\ \A i \in DOMAIN data_folder :
              data_folder[i].fault # "none" =>
                  /\ data_folder[i].name \notin DOMAIN db_manager[1].tables
                  /\ data_folder[i].name \notin DOMAIN db_manager[1].conn
                  /\ data_folder[i].name
                        \notin DOMAIN db_manager[1].schema_info

\* C21: in the text and voice modes text_to_speech is called at most once
\* for a submitted question, and only after the pass of that question
\* reached Answered, its record appended to the log; it is not called
\* after a pass that ended Rejected or Failed, and when it fails the record
\* stays in the log.
C21_SpeechAfterAnswered ==
    LET tts == CallsOf("text_to_speech")
    IN  /\ mode \notin {"text", "voice"} => (tts = {} /\ pc # "tts")
        /\ mode \in {"text", "voice"} =>
              /\ Cardinality(tts) <= 1
              /\ outcome \in {"Rejected", "Failed"}
                    => (tts = {} /\ pc # "tts")
              /\ (pc = "tts" \/ tts # {}) =>
                    /\ outcome = "Answered"
                    /\ Len(PassCalls) = Len(PassOps)
                    /\ \A i \in DOMAIN PassCalls : PassCalls[i].ok
                    /\ answer # None
                    /\ query_history = Append(history_before,
                           [query |-> query, sql |-> sql_query[1],
                            results |-> results[1], answer |-> answer[1]])
              /\ \A i \in tts :
                    /\ i = Len(calls)
                    /\ calls[i - 1].op = "generate_answer"
                    /\ pc = "idle"

\* text_to_speech has failed after a spoken question was answered, and the
\* record of the question is in the log
C21_Witness ==
    /\ mode = "voice"
    /\ pc = "idle"
    /\ outcome = "Answered"
    /\ \E i \in CallsOf("text_to_speech") : ~calls[i].ok
    /\ Len(query_history) = Len(history_before) + 1
    /\ query_history[Len(query_history)].query = query
    /\ errors # <<>>

=============================================================================
